---- MODULE Spec2Model ----
(***************************************************************************)
(* Model of dsp-analyze: the swept-sine generator (src/sweep_generator.rs), *)
(* the frequency-response analyzer (src/bode.rs), the WAV writer           *)
(* (src/wav_writer.rs) and the biquad filters (tests/biquad.rs).           *)
(*                                                                         *)
(* Numbers.  The program computes in f32.  The model computes in exact     *)
(* rational arithmetic: a number is a record [n |-> numerator,             *)
(* d |-> denominator] in lowest terms with d > 0.  Rounding, overflow,     *)
(* infinities and NaN of f32 are outside the model.                        *)
(*                                                                         *)
(* Angles.  phase and phase_inc are stored in units of TAU (one turn), so  *)
(* the code's TAU * freq / sample_rate is freq / sample_rate turns and the *)
(* code's comparison phase > TAU is phase > 1.                             *)
(***************************************************************************)
EXTENDS Integers, Sequences, FiniteSets, TLC

VARIABLES
    gen,        \* the SweepGenerator struct
    buffer,     \* the caller's buffer as the process() call just made left it
    result,     \* what that call returned ("none" when the last call was another)
    op,         \* the last operation called on the generator
    hist,       \* the samples written since the last start()
    total,      \* the number of samples written since construction
    exhausted,  \* process() returned MaxFreqReached since the last start()
    sentinels,  \* how many times it did so since the last start()
    cfgState,   \* "prestart", then "fixed" until a setter is called after the first start(), then "changed"
    an,         \* the FftAnalyzer struct
    run,        \* the position of FftAnalyzer::run and what it handed out
    f1,         \* a BiquadFilter1 struct
    f2,         \* a BiquadFilter2 struct
    bq,         \* the filters' caller: its last call, arguments and returns
    wav         \* the position of wav_writer::write and the file system it acts on

vars == <<gen, buffer, result, op, hist, total, exhausted, sentinels, cfgState,
          an, run, f1, f2, bq, wav>>

genVars == <<gen, buffer, result, op, hist, total, exhausted, sentinels, cfgState>>

anVars == <<an, run>>

bqVars == <<f1, f2, bq>>

wavVars == <<wav>>

---------------------------------------------------------------------------
(* Bounds of the model.                                                    *)

\* sample rates given to SweepGenerator::new are 1..MaxRate
MaxRate == 2
\* frequencies given to set_range are 0..MaxFreq
MaxFreq == 1
\* sweep times given to set_time are 1..MaxTime
MaxTime == 2
\* gains given to set_gain are 0..MaxGain
MaxGain == 1
\* buffers given to process have 0..MaxLen elements
MaxLen == 2
\* process is called as long as at most MaxSamples samples were written
MaxSamples == 5

---------------------------------------------------------------------------
(* Exact rational arithmetic standing for the f32 operations.              *)

Abs(i) == IF i < 0 THEN -i ELSE i

\* Euclid's algorithm, for a, b >= 0
GCD(a, b) ==
    LET gcd[x \in Nat, y \in Nat] == IF y = 0 THEN x ELSE gcd[y, x % y]
    IN  gcd[a, b]

\* n/d in lowest terms, for d # 0
Norm(n, d) ==
    LET s == IF d < 0 THEN -1 ELSE 1
        g == GCD(Abs(n), Abs(d))
    IN  [n |-> (s * n) \div g, d |-> (s * d) \div g]

R(i) == [n |-> i, d |-> 1]

\* the least common multiple of two denominators
LCM(a, b) == (a \div GCD(a, b)) * b

RAdd(a, b) ==
    LET d == LCM(a.d, b.d)
    IN  Norm(a.n * (d \div a.d) + b.n * (d \div b.d), d)

RSub(a, b) ==
    LET d == LCM(a.d, b.d)
    IN  Norm(a.n * (d \div a.d) - b.n * (d \div b.d), d)

RMul(a, b) == Norm(a.n * b.n, a.d * b.d)

\* a / b, for b # 0
RDiv(a, b) == Norm(a.n * b.d, a.d * b.n)

RGt(a, b) == a.n * b.d > b.n * a.d

RLe(a, b) == ~RGt(a, b)

\* the largest integer <= a
RFloor(a) == IF a.n >= 0 THEN a.n \div a.d ELSE -((-a.n + a.d - 1) \div a.d)

(* f32::sin of an angle of p turns, times gain.  The value is kept          *)
(* symbolically as amp * sin(TAU * q) with 0 <= q <= 1/4, where sin is      *)
(* one-to-one: the angle is reduced modulo one turn and folded by the       *)
(* symmetries sin(x) = sin(TAU/2 - x) = -sin(x - TAU/2).  A zero value is   *)
(* amp = 0, q = 0.  Two values with the same amp are equal exactly when     *)
(* their records are.                                                       *)
SinTimes(p, gain) ==
    LET fr == RSub(p, R(RFloor(p)))
        half == [n |-> 1, d |-> 2]
        quarter == [n |-> 1, d |-> 4]
        threeq == [n |-> 3, d |-> 4]
        q == IF RLe(fr, quarter) THEN fr
             ELSE IF RLe(fr, half) THEN RSub(half, fr)
             ELSE IF RLe(fr, threeq) THEN RSub(fr, half)
             ELSE RSub(R(1), fr)
        sign == IF RLe(fr, half) THEN 1 ELSE -1
    IN  IF q.n = 0 \/ gain = 0 THEN [amp |-> 0, q |-> R(0)]
        ELSE [amp |-> sign * gain, q |-> q]

---------------------------------------------------------------------------
(* SweepGenerator (src/sweep_generator.rs).                                *)

DefaultMinFreq == 20
DefaultMaxFreq == 20000
DefaultSweepTime == 1
DefaultGain == 1

\* freq_inc as new, set_range and set_time compute it
FreqInc(min_freq, max_freq, sample_rate, sweep_time) ==
    RDiv(RSub(max_freq, min_freq), RMul(sample_rate, sweep_time))

\* SweepGenerator::new(sample_rate)
new(sample_rate) ==
    [ sample_rate |-> sample_rate,
      min_freq    |-> R(DefaultMinFreq),
      max_freq    |-> R(DefaultMaxFreq),
      sweep_time  |-> R(DefaultSweepTime),
      gain        |-> DefaultGain,
      phase       |-> R(0),
      phase_inc   |-> R(0),
      freq        |-> R(DefaultMinFreq),
      freq_inc    |-> FreqInc(R(DefaultMinFreq), R(DefaultMaxFreq),
                              sample_rate, R(DefaultSweepTime)),
      started     |-> FALSE ]

\* SweepGenerator::set_range
set_range(g, min_freq, max_freq) ==
    [g EXCEPT !.min_freq = min_freq,
              !.max_freq = max_freq,
              !.freq_inc = FreqInc(min_freq, max_freq, g.sample_rate, g.sweep_time)]

\* SweepGenerator::set_time
set_time(g, sweep_time) ==
    [g EXCEPT !.sweep_time = sweep_time,
              !.freq_inc = FreqInc(g.min_freq, g.max_freq, g.sample_rate, sweep_time)]

\* SweepGenerator::set_gain
set_gain(g, gain) == [g EXCEPT !.gain = gain]

\* SweepGenerator::start: freq and phase_inc are reset, phase is not
start(g) ==
    [g EXCEPT !.freq = g.min_freq,
              !.phase_inc = RDiv(g.min_freq, g.sample_rate),
              !.started = TRUE]

(* A buffer element: the value it holds, whether the call under            *)
(* observation wrote it, and (for the written ones) the generator's freq   *)
(* when it was written.                                                    *)
Stale == [written |-> FALSE, val |-> [amp |-> 0, q |-> R(0)], freq |-> R(0)]

\* a caller's buffer of n elements before a call
FreshBuffer(n) == [i \in 1..n |-> Stale]

\* (a slip of the exit test: >= for >)
PastMaxOrAt(g) == ~RGt(g.max_freq, g.freq)

\* the loop's exit test: the sweep has passed max_freq
PastMax(g) == RGt(g.freq, g.max_freq)

\* (a slip of the deactivation: started is left set)
ExhaustKeepsStarted(g) == g

\* the generator deactivates when the exit test fires
Exhaust(g) == [g EXCEPT !.started = FALSE]

\* (a slip of the statement order: phase_inc is computed before freq advances)
ProcessSampleStaleInc(g) ==
    LET p1 == RAdd(g.phase, g.phase_inc)
        p2 == IF RGt(p1, R(1)) THEN RSub(p1, R(1)) ELSE p1
    IN  [g EXCEPT !.phase = p2,
                  !.freq = RAdd(g.freq, g.freq_inc),
                  !.phase_inc = RDiv(g.freq, g.sample_rate)]

\* one iteration of the loop body of process, after the exit test
ProcessSample(g) ==
    LET p1 == RAdd(g.phase, g.phase_inc)
        p2 == IF RGt(p1, R(1)) THEN RSub(p1, R(1)) ELSE p1
        f  == RAdd(g.freq, g.freq_inc)
    IN  [g EXCEPT !.phase = p2,
                  !.freq = f,
                  !.phase_inc = RDiv(f, g.sample_rate)]

\* the element process stores for the current sample
SampleOf(g) ==
    [written |-> TRUE, val |-> SinTimes(g.phase, g.gain), freq |-> g.freq]

(* The for loop of process from element i on.  The state after one          *)
(* iteration is bound to s (the one element of a set), so that it is        *)
(* evaluated once before the next iteration uses it.                        *)
RECURSIVE ProcessLoop(_, _, _)
ProcessLoop(g, buf, i) ==
    IF i > Len(buf) THEN [gen |-> g, buffer |-> buf, result |-> "Ok"]
    ELSE IF PastMax(g)
         THEN [gen |-> Exhaust(g), buffer |-> buf,
               result |-> "MaxFreqReached"]
         ELSE CHOOSE r \in
                  { ProcessLoop(s.g, s.buf, i + 1) :
                      s \in {[g   |-> ProcessSample(g),
                              buf |-> [buf EXCEPT ![i] = SampleOf(g)]]} } : TRUE

\* (a slip of process: the started test is missing)
processUnguarded(g, buf) == ProcessLoop(g, buf, 1)

\* SweepGenerator::process
process(g, buf) ==
    IF ~g.started THEN [gen |-> g, buffer |-> buf, result |-> "NotStarted"]
    ELSE ProcessLoop(g, buf, 1)

\* the elements of a buffer that were written, in order
Written(buf) == SelectSeq(buf, LAMBDA e : e.written)

\* the values held by a sequence of buffer elements
Vals(b) == [i \in DOMAIN b |-> b[i].val]

---------------------------------------------------------------------------
(* FftAnalyzer (src/bode.rs).                                              *)

DefaultSampleRate == 48000
DefaultBlockSize == 64

\* FftAnalyzerConfig::default
DefaultConfig == [sample_rate |-> R(DefaultSampleRate), block_size |-> DefaultBlockSize]

\* FftAnalyzer::new
FftAnalyzer_new(config) ==
    [ config             |-> config,
      in_samples         |-> <<>>,
      out_samples        |-> <<>>,
      spectrum_magnitude |-> <<>>,
      spectrum_phase     |-> <<>> ]

\* FftAnalyzer::clear
clear(a) ==
    [a EXCEPT !.in_samples = <<>>,
              !.out_samples = <<>>,
              !.spectrum_magnitude = <<>>,
              !.spectrum_phase = <<>>]

\* the sweep of run: 1 Hz to 20 kHz in 1 s, collected in batches of 16
SweepMinFreq == 1
SweepMaxFreq == 20000
SweepTime == 1
BatchSize == 16

\* the value 0.0
ZeroVal == [amp |-> 0, q |-> R(0)]

\* let mut buffer = [0.0; 16]
BatchBuffer == [i \in 1..BatchSize |-> [written |-> FALSE, val |-> ZeroVal, freq |-> R(0)]]

\* a buffer handed to the next call: it keeps its values, none written yet
Reused(buf) == [i \in DOMAIN buf |-> [buf[i] EXCEPT !.written = FALSE]]

\* while sweep_generator.process(&mut buffer).is_ok() { samples.extend(buffer) }
RECURSIVE SweepLoop(_, _, _)
SweepLoop(g, buf, samples) ==
    LET r == process(g, Reused(buf))
    IN  IF r.result = "Ok"
        THEN SweepLoop(r.gen, r.buffer, samples \o Vals(r.buffer))
        ELSE samples

\* fn sweep(sample_rate)
sweep(sample_rate) ==
    LET g0 == new(sample_rate)
        g1 == set_range(g0, R(SweepMinFreq), R(SweepMaxFreq))
        g2 == set_time(g1, R(SweepTime))
    IN  SweepLoop(start(g2), BatchBuffer, <<>>)

(* fn fft(indata): the forward real transform has len/2 + 1 bins           *)
(* (realfft's make_output_vec); bin k is kept as the term                  *)
(* DFT_k(data) * 1/sqrt(scale_len), where scale_len is spectrum.len().     *)
fft(indata) ==
    LET bins == (Len(indata) \div 2) + 1
    IN  [k \in 1..bins |-> [bin |-> k - 1, data |-> indata, scale_len |-> bins]]

\* (a slip of chunks: chunks_exact, which drops the shorter last chunk)
RECURSIVE chunksExact(_, _, _)
chunksExact(len, size, lo) ==
    IF lo + size > len THEN <<>>
    ELSE <<[lo |-> lo, hi |-> lo + size]>> \o chunksExact(len, size, lo + size)

(* slice::chunks(size) and chunks_mut(size) of a slice of len elements,    *)
(* for size >= 1: the index ranges [lo, hi) of the chunks from lo on       *)
RECURSIVE chunks(_, _, _)
chunks(len, size, lo) ==
    IF lo >= len THEN <<>>
    ELSE LET hi == IF lo + size > len THEN len ELSE lo + size
         IN  <<[lo |-> lo, hi |-> hi]>> \o chunks(len, size, hi)

\* Iterator::zip: pairs up to the shorter of the two
zip(a, b) ==
    LET n == IF Len(a) < Len(b) THEN Len(a) ELSE Len(b)
    IN  [k \in 1..n |-> <<a[k], b[k]>>]

\* the elements of s in the index range [c.lo, c.hi)
Slice(s, c) == SubSeq(s, c.lo + 1, c.hi)

\* s with the elements of the index range [c.lo, c.hi) replaced by t
Store(s, c, t) ==
    [i \in DOMAIN s |-> IF i > c.lo /\ i <= c.hi THEN t[i - c.lo] ELSE s[i]]

\* (a slip of the seeding: the output buffer is zero-filled, not copied)
ZeroFilled(src) == [i \in DOMAIN src |-> ZeroVal]

\* self.out_samples.clone_from(&self.in_samples)
CloneFrom(src) == src

\* (a slip of the start of run: clear is missing and the sweep is appended)
RunAppend(a) ==
    LET s == a.in_samples \o sweep(a.config.sample_rate)
    IN  [a EXCEPT !.in_samples = s, !.out_samples = CloneFrom(s)]

\* run, up to the chunk loop: clear, generate the sweep, seed the output
RunPrepare(a) ==
    LET s == sweep(a.config.sample_rate)
    IN  [clear(a) EXCEPT !.in_samples = s, !.out_samples = CloneFrom(s)]

(* The process functions a caller passes to run.  Each is given the input  *)
(* chunk (read-only), the output chunk and its own captured state, and     *)
(* yields the output chunk and its state afterwards.                       *)
(*   bypass: leaves the output chunk as it is                              *)
(*   invert: negates every output sample                                   *)
(*   mute:   writes 0.0 to every output sample                             *)
(*   hold:   a one-sample delay, its register captured by the closure      *)
StatelessFns == {"bypass", "invert", "mute"}

Fns == StatelessFns \cup {"hold"}

Negated(v) == [v EXCEPT !.amp = -v.amp]

func(f, st, inp, out) ==
    CASE f = "bypass" -> [out |-> out, st |-> st]
      [] f = "invert" -> [out |-> [i \in DOMAIN out |-> Negated(out[i])], st |-> st]
      [] f = "mute"   -> [out |-> [i \in DOMAIN out |-> ZeroVal], st |-> st]
      [] f = "hold"   -> [out |-> [i \in DOMAIN out |-> IF i = 1 THEN st ELSE inp[i - 1]],
                          st  |-> IF Len(inp) = 0 THEN st ELSE inp[Len(inp)]]

\* (a slip of the publication: bins whose input bin is zero are left out)
RunPublishSkipZero(a) ==
    LET in_spectrum  == fft(a.in_samples)
        out_spectrum == fft(a.out_samples)
        pairs        == zip(out_spectrum, in_spectrum)
        all          == [k \in DOMAIN pairs |-> [num |-> pairs[k][1], den |-> pairs[k][2]]]
        spectrum     == SelectSeq(all, LAMBDA v :
                            \E i \in DOMAIN v.den.data : v.den.data[i] # ZeroVal)
    IN  [a EXCEPT !.spectrum_magnitude =
                      [k \in DOMAIN spectrum |-> [db_of_norm |-> spectrum[k]]],
                  !.spectrum_phase =
                      [k \in DOMAIN spectrum |-> [deg_of_arg |-> spectrum[k]]]]

\* run, after the chunk loop: the spectra of the ratio output_bin / input_bin
RunPublish(a) ==
    LET in_spectrum  == fft(a.in_samples)
        out_spectrum == fft(a.out_samples)
        pairs        == zip(out_spectrum, in_spectrum)
        spectrum     == [k \in DOMAIN pairs |-> [num |-> pairs[k][1], den |-> pairs[k][2]]]
    IN  [a EXCEPT !.spectrum_magnitude =
                      [k \in DOMAIN spectrum |-> [db_of_norm |-> spectrum[k]]],
                  !.spectrum_phase =
                      [k \in DOMAIN spectrum |-> [deg_of_arg |-> spectrum[k]]]]

\* the chunk pairs the loop of run iterates over
RunPairs(a) ==
    zip(chunks(Len(a.in_samples), a.config.block_size, 0),
        chunks(Len(a.out_samples), a.config.block_size, 0))

\* run is not being executed
RunIdle == [pc |-> "idle", fn |-> "bypass", st |-> ZeroVal, calls |-> <<>>]

---------------------------------------------------------------------------
(* Biquad filters (src/tests/biquad.rs).                                   *)
(*                                                                         *)
(* A FilterParams value is a record with its variant's name in tag and the *)
(* fields the variant carries (freq, q, gain), each an exact rational.     *)

\* the variants carrying freq and q
FreqQTags == {"Lowpass", "Highpass", "Bandpass", "Notch", "Allpass"}

\* the variant carrying freq, q and gain
FreqQGainTags == {"Peak"}

\* the variants carrying freq and gain
FreqGainTags == {"LowShelf", "HighShelf", "LowShelf1st", "HighShelf1st"}

\* the variants carrying freq alone
FreqTags == {"Lowpass1p", "Lowpass1p1z", "Highpass1p1z"}

\* FilterParams::Bypass, the default variant
Bypass == [tag |-> "Bypass"]

\* f32::clamp(min, max) with range = <<min, max>>, for min <= max
Clampf(x, range) ==
    IF RGt(range[1], x) THEN range[1]
    ELSE IF RGt(x, range[2]) THEN range[2]
    ELSE x

\* FilterParams::clamp
clamp(params, freq_range, q_range, gain_range) ==
    CASE params.tag = "Bypass" -> params
      [] params.tag \in FreqQTags ->
            [params EXCEPT !.freq = Clampf(@, freq_range),
                           !.q = Clampf(@, q_range)]
      [] params.tag \in FreqQGainTags ->
            [params EXCEPT !.freq = Clampf(@, freq_range),
                           !.q = Clampf(@, q_range),
                           !.gain = Clampf(@, gain_range)]
      [] params.tag \in FreqGainTags ->
            [params EXCEPT !.freq = Clampf(@, freq_range),
                           !.gain = Clampf(@, gain_range)]
      [] params.tag \in FreqTags ->
            [params EXCEPT !.freq = Clampf(@, freq_range)]

\* BiquadFilterCoefficients::default
DefaultCoefficients ==
    [a0 |-> R(1), a1 |-> R(0), a2 |-> R(0), b1 |-> R(0), b2 |-> R(0)]

(* (PI * x).tan(), for the angles at which it is rational: tan has period  *)
(* PI, so x is reduced modulo 1; tan(0) = 0, tan(PI/4) = 1,                *)
(* tan(3 PI/4) = -1.                                                       *)
TanPi(x) ==
    LET fr == RSub(x, R(RFloor(x)))
    IN  CASE fr = R(0) -> R(0)
          [] fr = [n |-> 1, d |-> 4] -> R(1)
          [] fr = [n |-> 3, d |-> 4] -> R(-1)

\* 10.0.powf(x), for the exponents at which it is rational: 0, 1 and 2
Pow10(x) ==
    CASE x = R(0) -> R(1)
      [] x = R(1) -> R(10)
      [] x = R(2) -> R(100)

\* f32::abs
RAbs(a) == [n |-> Abs(a.n), d |-> a.d]

\* -a
RNeg(a) == [n |-> -a.n, d |-> a.d]

\* the term 2.0 * (k * k - 1.0) * norm that most variants share
TwoKK1(k, norm) == RMul(RMul(R(2), RSub(RMul(k, k), R(1))), norm)

\* 1.0 + t + k * k and 1.0 - t + k * k
OnePlus(t, k) == RAdd(RAdd(R(1), t), RMul(k, k))

OneMinus(t, k) == RAdd(RSub(R(1), t), RMul(k, k))

\* from_params, FilterParams::Lowpass
LowpassCoefficients(k, q) ==
    LET norm == RDiv(R(1), OnePlus(RDiv(k, q), k))
        a0   == RMul(RMul(k, k), norm)
    IN  [a0 |-> a0, a1 |-> RMul(R(2), a0), a2 |-> a0,
         b1 |-> TwoKK1(k, norm), b2 |-> RMul(OneMinus(RDiv(k, q), k), norm)]

\* from_params, FilterParams::Highpass
HighpassCoefficients(k, q) ==
    LET norm == RDiv(R(1), OnePlus(RDiv(k, q), k))
        a0   == norm
    IN  [a0 |-> a0, a1 |-> RMul(R(-2), a0), a2 |-> a0,
         b1 |-> TwoKK1(k, norm), b2 |-> RMul(OneMinus(RDiv(k, q), k), norm)]

\* from_params, FilterParams::Bandpass
BandpassCoefficients(k, q) ==
    LET norm == RDiv(R(1), OnePlus(RDiv(k, q), k))
        a0   == RMul(RDiv(k, q), norm)
    IN  [a0 |-> a0, a1 |-> R(0), a2 |-> RNeg(a0),
         b1 |-> TwoKK1(k, norm), b2 |-> RMul(OneMinus(RDiv(k, q), k), norm)]

\* from_params, FilterParams::Notch
NotchCoefficients(k, q) ==
    LET norm == RDiv(R(1), OnePlus(RDiv(k, q), k))
        a0   == RMul(RAdd(R(1), RMul(k, k)), norm)
        a1   == TwoKK1(k, norm)
    IN  [a0 |-> a0, a1 |-> a1, a2 |-> a0,
         b1 |-> a1, b2 |-> RMul(OneMinus(RDiv(k, q), k), norm)]

\* from_params, FilterParams::Peak
PeakCoefficients(k, q, gain) ==
    LET v  == Pow10(RDiv(RAbs(gain), R(20)))
        t1 == RMul(RDiv(R(1), q), k)
        tv == RMul(RDiv(v, q), k)
    IN  IF gain.n >= 0
        THEN LET norm == RDiv(R(1), OnePlus(t1, k))
                 a1   == TwoKK1(k, norm)
             IN  [a0 |-> RMul(OnePlus(tv, k), norm), a1 |-> a1,
                  a2 |-> RMul(OneMinus(tv, k), norm),
                  b1 |-> a1, b2 |-> RMul(OneMinus(t1, k), norm)]
        ELSE LET norm == RDiv(R(1), OnePlus(tv, k))
                 a1   == TwoKK1(k, norm)
             IN  [a0 |-> RMul(OnePlus(t1, k), norm), a1 |-> a1,
                  a2 |-> RMul(OneMinus(t1, k), norm),
                  b1 |-> a1, b2 |-> RMul(OneMinus(tv, k), norm)]

\* from_params, FilterParams::Allpass
AllpassCoefficients(k, q) ==
    LET div_q == RDiv(R(1), q)
        norm  == RDiv(R(1), OnePlus(RMul(k, div_q), k))
        a0    == RMul(OneMinus(RMul(k, div_q), k), norm)
        a1    == TwoKK1(k, norm)
    IN  [a0 |-> a0, a1 |-> a1, a2 |-> R(1), b1 |-> a1, b2 |-> a0]

\* from_params, FilterParams::Lowpass1p1z
Lowpass1p1zCoefficients(k) ==
    LET norm == RDiv(R(1), RAdd(RDiv(R(1), k), R(1)))
    IN  [a0 |-> norm, a1 |-> norm, a2 |-> R(0),
         b1 |-> RMul(RSub(R(1), RDiv(R(1), k)), norm), b2 |-> R(0)]

\* from_params, FilterParams::Highpass1p1z
Highpass1p1zCoefficients(k) ==
    LET norm == RDiv(R(1), RAdd(k, R(1)))
    IN  [a0 |-> norm, a1 |-> RNeg(norm), a2 |-> R(0),
         b1 |-> RMul(RSub(k, R(1)), norm), b2 |-> R(0)]

\* from_params, FilterParams::LowShelf1st
LowShelf1stCoefficients(k, gain) ==
    LET v  == Pow10(RDiv(RAbs(gain), R(20)))
        kv == RMul(k, v)
    IN  IF gain.n >= 0
        THEN LET norm == RDiv(R(1), RAdd(k, R(1)))
             IN  [a0 |-> RMul(RAdd(kv, R(1)), norm),
                  a1 |-> RMul(RSub(kv, R(1)), norm), a2 |-> R(0),
                  b1 |-> RMul(RSub(k, R(1)), norm), b2 |-> R(0)]
        ELSE LET norm == RDiv(R(1), RAdd(kv, R(1)))
             IN  [a0 |-> RMul(RAdd(k, R(1)), norm),
                  a1 |-> RMul(RSub(k, R(1)), norm), a2 |-> R(0),
                  b1 |-> RMul(RSub(kv, R(1)), norm), b2 |-> R(0)]

\* from_params, FilterParams::HighShelf1st
HighShelf1stCoefficients(k, gain) ==
    LET v == Pow10(RDiv(RAbs(gain), R(20)))
    IN  IF gain.n >= 0
        THEN LET norm == RDiv(R(1), RAdd(k, R(1)))
             IN  [a0 |-> RMul(RAdd(k, v), norm),
                  a1 |-> RMul(RSub(k, v), norm), a2 |-> R(0),
                  b1 |-> RMul(RSub(k, R(1)), norm), b2 |-> R(0)]
        ELSE LET norm == RDiv(R(1), RAdd(k, v))
             IN  [a0 |-> RMul(RAdd(k, R(1)), norm),
                  a1 |-> RMul(RSub(k, R(1)), norm), a2 |-> R(0),
                  b1 |-> RMul(RSub(k, v), norm), b2 |-> R(0)]

\* the variants whose coefficients are rational at rational k, q and v
RationalTags ==
    {"Bypass", "Lowpass", "Highpass", "Bandpass", "Notch", "Peak", "Allpass",
     "Lowpass1p1z", "Highpass1p1z", "LowShelf1st", "HighShelf1st"}

(* BiquadFilterCoefficients::from_params.  LowShelf and HighShelf (which   *)
(* multiply by the square root of 2) and Lowpass1p (which takes exp) have  *)
(* no rational value at the angles of TanPi other than 0; they are         *)
(* FilterParams values (clamp handles them) that are not given to          *)
(* from_params here.                                                       *)
from_params(params, sample_time) ==
    LET k == TanPi(RMul(params.freq, sample_time))
    IN  CASE params.tag = "Bypass"       -> DefaultCoefficients
          [] params.tag = "Lowpass"      -> LowpassCoefficients(k, params.q)
          [] params.tag = "Highpass"     -> HighpassCoefficients(k, params.q)
          [] params.tag = "Bandpass"     -> BandpassCoefficients(k, params.q)
          [] params.tag = "Notch"        -> NotchCoefficients(k, params.q)
          [] params.tag = "Peak"         -> PeakCoefficients(k, params.q, params.gain)
          [] params.tag = "Allpass"      -> AllpassCoefficients(k, params.q)
          [] params.tag = "Lowpass1p1z"  -> Lowpass1p1zCoefficients(k)
          [] params.tag = "Highpass1p1z" -> Highpass1p1zCoefficients(k)
          [] params.tag = "LowShelf1st"  -> LowShelf1stCoefficients(k, params.gain)
          [] params.tag = "HighShelf1st" -> HighShelf1stCoefficients(k, params.gain)

\* the value 0.0 of a state register
Zero2 == <<R(0), R(0)>>

\* BiquadFilter1::new (direct form 1)
new1(sample_rate) ==
    [ sample_time |-> RDiv(R(1), sample_rate),
      coeffs      |-> DefaultCoefficients,
      in_states   |-> Zero2,
      out_states  |-> Zero2 ]

\* (a slip of set_params: the state registers are cleared with the retuning)
set_params1Clearing(f, params) ==
    [f EXCEPT !.coeffs = from_params(params, f.sample_time),
              !.in_states = Zero2,
              !.out_states = Zero2]

\* BiquadFilter1::set_params
set_params1(f, params) ==
    [f EXCEPT !.coeffs = from_params(params, f.sample_time)]

\* BiquadFilter1::reset
reset1(f) == set_params1(f, Bypass)

\* BiquadFilter1::set_coefficients
set_coefficients1(f, coeffs) == [f EXCEPT !.coeffs = coeffs]

\* (a slip of a sign: the b1 feedback term is added)
process_sample1PlusFeedback(f, sample) ==
    LET c == f.coeffs
        out_sample ==
            RSub(RAdd(RAdd(RAdd(RMul(c.a0, sample),
                                RMul(c.a1, f.in_states[1])),
                           RMul(c.a2, f.in_states[2])),
                      RMul(c.b1, f.out_states[1])),
                 RMul(c.b2, f.out_states[2]))
    IN  [f   |-> [f EXCEPT !.in_states = <<sample, f.in_states[1]>>,
                           !.out_states = <<out_sample, f.out_states[1]>>],
         out |-> out_sample]

\* BiquadFilter1::process_sample: the filter afterwards and the sample returned
process_sample1(f, sample) ==
    LET c == f.coeffs
        out_sample ==
            RSub(RSub(RAdd(RAdd(RMul(c.a0, sample),
                                RMul(c.a1, f.in_states[1])),
                           RMul(c.a2, f.in_states[2])),
                      RMul(c.b1, f.out_states[1])),
                 RMul(c.b2, f.out_states[2]))
    IN  [f   |-> [f EXCEPT !.in_states = <<sample, f.in_states[1]>>,
                           !.out_states = <<out_sample, f.out_states[1]>>],
         out |-> out_sample]

\* BiquadFilter1::process_block from element i on: the filter and the block afterwards
RECURSIVE process_block1(_, _, _)
process_block1(f, samples, i) ==
    IF i > Len(samples) THEN [f |-> f, samples |-> samples]
    ELSE LET r == process_sample1(f, samples[i])
         IN  process_block1(r.f, [samples EXCEPT ![i] = r.out], i + 1)

\* BiquadFilter2::new (transposed direct form 2)
new2(sample_rate) ==
    [ sample_time |-> RDiv(R(1), sample_rate),
      coeffs      |-> DefaultCoefficients,
      states      |-> Zero2 ]

\* BiquadFilter2::set_params
set_params2(f, params) ==
    [f EXCEPT !.coeffs = from_params(params, f.sample_time)]

\* BiquadFilter2::reset
reset2(f) == set_params2(f, Bypass)

\* BiquadFilter2::set_coefficients
set_coefficients2(f, coeffs) == [f EXCEPT !.coeffs = coeffs]

\* (a slip of the update order: states[1] is computed first and then read)
process_sample2Reordered(f, sample) ==
    LET c == f.coeffs
        out_sample == RAdd(f.states[1], RMul(c.a0, sample))
        s1 == RSub(RMul(c.a2, sample), RMul(c.b2, out_sample))
        s0 == RSub(RAdd(s1, RMul(c.a1, sample)), RMul(c.b1, out_sample))
    IN  [f |-> [f EXCEPT !.states = <<s0, s1>>], out |-> out_sample]

\* BiquadFilter2::process_sample: the filter afterwards and the sample returned
process_sample2(f, sample) ==
    LET c == f.coeffs
        out_sample == RAdd(f.states[1], RMul(c.a0, sample))
        s0 == RSub(RAdd(f.states[2], RMul(c.a1, sample)), RMul(c.b1, out_sample))
        s1 == RSub(RMul(c.a2, sample), RMul(c.b2, out_sample))
    IN  [f |-> [f EXCEPT !.states = <<s0, s1>>], out |-> out_sample]

\* BiquadFilter2::process_block from element i on: the filter and the block afterwards
RECURSIVE process_block2(_, _, _)
process_block2(f, samples, i) ==
    IF i > Len(samples) THEN [f |-> f, samples |-> samples]
    ELSE LET r == process_sample2(f, samples[i])
         IN  process_block2(r.f, [samples EXCEPT ![i] = r.out], i + 1)

\* the sample rate the filters are constructed with
BqSampleRate == R(4)

\* no FilterParams value
NoParams == [tag |-> "None"]

(* The caller before its first call: op is its last call, n the number of  *)
(* samples it had processed, mode whether the coefficients were last set   *)
(* by new, reset or set_params(Bypass); x, out1, out2 are the argument and *)
(* the returns of process_sample, block, block1, block2 those of           *)
(* process_block; params is the FilterParams value it holds, given that    *)
(* value before its clamp call, seen the value set_params received, ranges *)
(* its <<freq_range, q_range, gain_range>>, pattern its input signal;      *)
(* retuned is whether it has set coefficients while a state register of    *)
(* one of the filters held a value other than zero.                        *)
BqNone ==
    [ op      |-> "new",
      n       |-> 0,
      mode    |-> "Bypass",
      retuned |-> FALSE,
      x       |-> R(0),
      out1    |-> R(0),
      out2    |-> R(0),
      block   |-> <<>>,
      block1  |-> <<>>,
      block2  |-> <<>>,
      params  |-> NoParams,
      given   |-> NoParams,
      seen    |-> NoParams,
      ranges  |-> <<Zero2, Zero2, Zero2>>,
      pattern |-> <<>> ]

\* some state register of the two filters holds a value other than zero
Loaded ==
    \/ f1.in_states # Zero2
    \/ f1.out_states # Zero2
    \/ f2.states # Zero2

\* filters that are not used
BqIdle ==
    /\ f1 = new1(BqSampleRate)
    /\ f2 = new2(BqSampleRate)
    /\ bq = BqNone

\* wav_writer::write is not being executed
WavNone ==
    [ pc |-> "idle", path |-> "none", dir |-> FALSE, n |-> 0, written |-> 0,
      failed |-> FALSE, result |-> "none" ]

WavIdle == wav = WavNone

---------------------------------------------------------------------------
(* A caller of the generator.  It follows the lifecycle of the generator:  *)
(* the setters are called while no sweep is running (before start() or     *)
(* after the sweep has ended), start() and process() at any time.          *)

Rates == 1..MaxRate

Freqs == 0..MaxFreq

Times == 1..MaxTime

Gains == 0..MaxGain

\* what a setter call does to cfgState
Reconfigured == IF cfgState = "prestart" THEN "prestart" ELSE "changed"

GenInit ==
    /\ \E sr \in Rates : gen = new(R(sr))
    /\ buffer = <<>>
    /\ result = "none"
    /\ op = "new"
    /\ hist = <<>>
    /\ total = 0
    /\ exhausted = FALSE
    /\ sentinels = 0
    /\ cfgState = "prestart"

SetRange ==
    \E lo \in Freqs, hi \in Freqs :
        /\ ~gen.started
        /\ gen' = set_range(gen, R(lo), R(hi))
        /\ op' = "set_range"
        /\ cfgState' = Reconfigured
        /\ buffer' = <<>>
        /\ result' = "none"
        /\ UNCHANGED <<hist, total, exhausted, sentinels>>

SetTime ==
    \E t \in Times :
        /\ ~gen.started
        /\ gen' = set_time(gen, R(t))
        /\ op' = "set_time"
        /\ cfgState' = Reconfigured
        /\ buffer' = <<>>
        /\ result' = "none"
        /\ UNCHANGED <<hist, total, exhausted, sentinels>>

SetGain ==
    \E k \in Gains :
        /\ ~gen.started
        /\ gen' = set_gain(gen, k)
        /\ op' = "set_gain"
        /\ cfgState' = Reconfigured
        /\ buffer' = <<>>
        /\ result' = "none"
        /\ UNCHANGED <<hist, total, exhausted, sentinels>>

Start ==
    /\ gen' = start(gen)
    /\ op' = "start"
    /\ hist' = <<>>
    /\ exhausted' = FALSE
    /\ sentinels' = 0
    /\ cfgState' = IF cfgState = "prestart" THEN "fixed" ELSE cfgState
    /\ buffer' = <<>>
    /\ result' = "none"
    /\ UNCHANGED total

Process ==
    \E n \in 0..MaxLen :
        /\ total + n <= MaxSamples
        /\ LET r == process(gen, FreshBuffer(n))
               w == Written(r.buffer)
           IN  /\ gen' = r.gen
               /\ buffer' = r.buffer
               /\ result' = r.result
               /\ hist' = hist \o w
               /\ total' = total + Len(w)
               /\ exhausted' = (exhausted \/ r.result = "MaxFreqReached")
               /\ sentinels' = sentinels + (IF r.result = "MaxFreqReached" THEN 1 ELSE 0)
        /\ op' = "process"
        /\ UNCHANGED cfgState

\* an analyzer that is not used
AnIdle ==
    /\ an = FftAnalyzer_new(DefaultConfig)
    /\ run = RunIdle

Init ==
    /\ GenInit
    /\ AnIdle
    /\ BqIdle
    /\ WavIdle

Next ==
    \/ SetRange /\ UNCHANGED <<anVars, bqVars, wavVars>>
    \/ SetTime /\ UNCHANGED <<anVars, bqVars, wavVars>>
    \/ SetGain /\ UNCHANGED <<anVars, bqVars, wavVars>>
    \/ Start /\ UNCHANGED <<anVars, bqVars, wavVars>>
    \/ Process /\ UNCHANGED <<anVars, bqVars, wavVars>>

Spec == Init /\ [][Next]_vars

---------------------------------------------------------------------------
(* The generator's claims.                                                 *)

(* C1: process on a generator that is not started returns NotStarted,      *)
(* writes no element of the buffer and changes no field of the generator,  *)
(* for every buffer length from 0 on.                                      *)
C1_NotStartedNoEffect ==
    [][ (op' = "process" /\ ~gen.started) =>
            /\ result' = "NotStarted"
            /\ gen' = gen
            /\ \A i \in DOMAIN buffer' : buffer'[i] = Stale ]_vars

\* process was called with a non-empty buffer before any start()
C1_Witness ==
    /\ op = "process"
    /\ cfgState = "prestart"
    /\ result = "NotStarted"
    /\ Len(buffer) > 0

(* C2: when process returns MaxFreqReached the buffer is a written prefix  *)
(* followed by untouched elements, the untouched part is not empty, every  *)
(* written sample had freq <= max_freq, the current freq is > max_freq and *)
(* started is false; when it returns Ok every element was written (with    *)
(* freq <= max_freq) and the generator is still started.                   *)
C2_MaxFreqReachedAtFirstPast ==
    op = "process" =>
        /\ result = "MaxFreqReached" =>
              /\ \E k \in 0..(Len(buffer) - 1) :
                    /\ \A i \in 1..k :
                          /\ buffer[i].written
                          /\ RLe(buffer[i].freq, gen.max_freq)
                    /\ \A i \in (k + 1)..Len(buffer) : buffer[i] = Stale
              /\ RGt(gen.freq, gen.max_freq)
              /\ ~gen.started
        /\ result = "Ok" =>
              /\ \A i \in DOMAIN buffer :
                    /\ buffer[i].written
                    /\ RLe(buffer[i].freq, gen.max_freq)
              /\ gen.started

\* MaxFreqReached in the middle of a buffer: a written prefix, then untouched
C2_Witness ==
    /\ op = "process"
    /\ result = "MaxFreqReached"
    /\ Len(Written(buffer)) >= 1
    /\ Len(buffer) > Len(Written(buffer))

(* C3: after MaxFreqReached every process call returns NotStarted and      *)
(* leaves the generator exhausted, so MaxFreqReached is returned at most   *)
(* once between two start() calls; start() makes the generator active at   *)
(* freq = min_freq, and the first sample of the process call that follows  *)
(* it is produced at frequency min_freq.                                   *)
C3_ExhaustedUntilRestart ==
    /\ [](sentinels <= 1 /\ (exhausted => ~gen.started))
    /\ [][ /\ (exhausted /\ op' = "process") =>
                  (result' = "NotStarted" /\ exhausted' /\ Len(Written(buffer')) = 0)
           /\ (op' = "start") =>
                  (gen'.started /\ gen'.freq = gen'.min_freq)
           /\ (op = "start" /\ op' = "process" /\ Len(buffer') > 0
                 /\ RLe(gen.min_freq, gen.max_freq)) =>
                  (buffer'[1].written /\ buffer'[1].freq = gen.min_freq)
         ]_vars

\* a process call on the exhausted generator, after samples were produced
C3_Witness ==
    /\ exhausted
    /\ op = "process"
    /\ result = "NotStarted"
    /\ Len(hist) > 0

\* the first k samples of a newly constructed generator with g's configuration
RefSweep(g, k) ==
    LET fresh == set_gain(set_time(set_range(new(g.sample_rate), g.min_freq,
                                             g.max_freq), g.sweep_time), g.gain)
    IN  Written(process(start(fresh), FreshBuffer(k)).buffer)

(* C4: with the configuration fixed, the samples produced since the last   *)
(* start() are the samples the first sweep of that configuration begins    *)
(* with: the k-th sample after a start() depends on the configuration and  *)
(* k alone.                                                                *)
C4_RestartDeterminism ==
    cfgState = "fixed" => Vals(hist) = Vals(RefSweep(gen, Len(hist)))

(* C18: from the first start() on, phase_inc is TAU * freq / sample_rate   *)
(* for the current freq in every state; and while a sweep runs and when    *)
(* process has just ended it (no setter is called during a sweep) freq is  *)
(* min_freq + k * freq_inc, k the number of samples produced since the     *)
(* last start().                                                           *)
C18_PhaseIncTracksFreq ==
    /\ cfgState # "prestart" =>
          gen.phase_inc = RDiv(gen.freq, gen.sample_rate)
    /\ (gen.started \/ result = "MaxFreqReached") =>
          gen.freq = RAdd(gen.min_freq, RMul(R(Len(hist)), gen.freq_inc))

\* a rising sweep has produced samples and is still running
C18_Witness ==
    /\ op = "process"
    /\ gen.started
    /\ Len(hist) >= 2
    /\ gen.freq_inc.n > 0

---------------------------------------------------------------------------
(* A caller of the analyzer: it constructs the analyzer with some sample   *)
(* rate and block size and calls run any number of times, each time with   *)
(* one of the process functions.  run is followed from one invocation of   *)
(* the process function to the next.                                       *)

\* sample rates of the analyzer's configuration are 1..MaxRunRate
MaxRunRate == 31
\* block sizes of the analyzer's configuration are 0..MaxBlock
MaxBlock == 17

\* a generator that is not used
GenIdle ==
    /\ gen = new(R(1))
    /\ buffer = <<>>
    /\ result = "none"
    /\ op = "new"
    /\ hist = <<>>
    /\ total = 0
    /\ exhausted = FALSE
    /\ sentinels = 0
    /\ cfgState = "prestart"

RunInit ==
    /\ \E sr \in 1..MaxRunRate, b \in 0..MaxBlock :
          an = FftAnalyzer_new([sample_rate |-> R(sr), block_size |-> b])
    /\ run = RunIdle
    /\ GenIdle
    /\ BqIdle
    /\ WavIdle

(* run is called with process function f: the state is cleared, the sweep  *)
(* generated and copied; chunks(0) panics before any invocation.           *)
RunBegin ==
    /\ run.pc \in {"idle", "done"}
    /\ \E f \in Fns :
          run' = [pc    |-> IF an.config.block_size = 0 THEN "panicked" ELSE "chunks",
                  fn    |-> f,
                  st    |-> run.st,
                  calls |-> <<>>]
    /\ an' = RunPrepare(an)

\* the next invocation of the process function
RunChunk ==
    /\ run.pc = "chunks"
    /\ Len(run.calls) < Len(RunPairs(an))
    /\ LET pair == RunPairs(an)[Len(run.calls) + 1]
           inp  == Slice(an.in_samples, pair[1])
           out  == Slice(an.out_samples, pair[2])
           r    == func(run.fn, run.st, inp, out)
       IN  /\ an' = [an EXCEPT !.out_samples = Store(an.out_samples, pair[2], r.out)]
           /\ run' = [run EXCEPT !.st = r.st,
                                 !.calls = Append(@, [inr |-> pair[1], outr |-> pair[2],
                                                      inp |-> inp, out |-> out])]

\* the loop is over: the spectra are computed and published, run returns
RunFinish ==
    /\ run.pc = "chunks"
    /\ Len(run.calls) = Len(RunPairs(an))
    /\ an' = RunPublish(an)
    /\ run' = [run EXCEPT !.pc = "done"]

RunNext ==
    \/ RunBegin /\ UNCHANGED <<genVars, bqVars, wavVars>>
    \/ RunChunk /\ UNCHANGED <<genVars, bqVars, wavVars>>
    \/ RunFinish /\ UNCHANGED <<genVars, bqVars, wavVars>>

SpecRun == RunInit /\ [][RunNext]_vars

---------------------------------------------------------------------------
(* The analyzer's claims.                                                  *)

(* C6: run ends by publishing the spectra, for every block size and every  *)
(* positive sample rate: it never aborts, and when it has returned both    *)
(* spectra are there.                                                      *)
C6_RunTerminatesPublishing ==
    /\ run.pc # "panicked"
    /\ run.pc = "done" =>
          (Len(an.spectrum_magnitude) > 0 /\ Len(an.spectrum_phase) > 0)

C8_OutputSeededInputIntact ==
    run.pc # "idle" =>
        /\ an.in_samples = sweep(an.config.sample_rate)
        /\ \A k \in 1..Len(run.calls) : run.calls[k].out = run.calls[k].inp

\* run has returned after invocations that overwrote their chunks with 0.0
C8_Witness ==
    /\ run.pc = "done"
    /\ run.fn = "mute"
    /\ Len(run.calls) >= 2
    /\ \E i \in DOMAIN an.in_samples : an.in_samples[i] # ZeroVal

\* the chunk loop of run from invocation k on, on analyzer a
RECURSIVE RunLoop(_, _, _, _)
RunLoop(a, f, st, k) ==
    IF k > Len(RunPairs(a)) THEN a
    ELSE LET pair == RunPairs(a)[k]
             r    == func(f, st, Slice(a.in_samples, pair[1]),
                          Slice(a.out_samples, pair[2]))
         IN  RunLoop([a EXCEPT !.out_samples = Store(a.out_samples, pair[2], r.out)],
                     f, r.st, k + 1)

\* what one run with f leaves in a newly constructed analyzer
FreshRun(config, f) ==
    RunPublish(RunLoop(RunPrepare(FftAnalyzer_new(config)), f, ZeroVal, 1))

(* C9: whatever runs came before, after a run with a stateless process     *)
(* function the analyzer is what a single run with it leaves in a new      *)
(* analyzer of the same configuration, and while a run is in its chunk     *)
(* loop no spectrum of an earlier run is there.                            *)
C9_RunStartsCleared ==
    /\ (run.pc = "done" /\ run.fn \in StatelessFns) =>
          an = FreshRun(an.config, run.fn)
    /\ run.pc = "chunks" =>
          (an.spectrum_magnitude = <<>> /\ an.spectrum_phase = <<>>)

(* a run with a stateless function has returned, after an earlier run with *)
(* the delay (its register holds a sample of that run)                     *)
C9_Witness ==
    /\ run.pc = "done"
    /\ run.fn = "invert"
    /\ run.st # ZeroVal
    /\ Len(an.in_samples) > 0

(* C10: after run has returned, in_samples holds sample_rate * sweep_time  *)
(* samples.                                                                *)
C10_SweepLength ==
    run.pc = "done" =>
        Len(an.in_samples) * an.config.sample_rate.d = an.config.sample_rate.n * SweepTime

(* C11: while run is in its chunk loop and after it has returned,          *)
(* out_samples has the length N of in_samples; after it has returned,      *)
(* spectrum_magnitude and spectrum_phase both have floor(N/2) + 1 entries, *)
(* and entry k (from 0) of each is the one of bin k: no bin is left out,   *)
(* also when the input is empty or silent and the input bin is zero.       *)
C11_ParallelBuffers ==
    LET N == Len(an.in_samples)
    IN  /\ run.pc \in {"chunks", "done"} => Len(an.out_samples) = N
        /\ run.pc = "done" =>
              /\ Len(an.spectrum_magnitude) = (N \div 2) + 1
              /\ Len(an.spectrum_phase) = (N \div 2) + 1
              /\ \A k \in 1..((N \div 2) + 1) :
                    /\ an.spectrum_magnitude[k].db_of_norm.num.bin = k - 1
                    /\ an.spectrum_magnitude[k].db_of_norm.den.bin = k - 1
                    /\ an.spectrum_phase[k].deg_of_arg.num.bin = k - 1
                    /\ an.spectrum_phase[k].deg_of_arg.den.bin = k - 1

\* run has returned for an empty sweep: its one input bin is zero
C11_Witness ==
    /\ run.pc = "done"
    /\ Len(an.in_samples) = 0
    /\ Len(an.spectrum_magnitude) = 1

(* C20: each published bin is the ratio of an output bin and an input bin *)
(* that were both scaled by 1/sqrt(N), N the number of samples that were   *)
(* transformed.                                                            *)
C20_ScaledBySampleCount ==
    run.pc = "done" =>
        \A k \in DOMAIN an.spectrum_magnitude :
            LET v == an.spectrum_magnitude[k].db_of_norm
            IN  /\ v.num.scale_len = Len(v.num.data)
                /\ v.den.scale_len = Len(v.den.data)
                /\ v.num.scale_len = v.den.scale_len

---------------------------------------------------------------------------
(* A caller that runs one sweep: it configures and starts the generator    *)
(* and calls process with non-empty buffers until it receives              *)
(* MaxFreqReached, as the loop of sweep in src/bode.rs does.  The caller   *)
(* is sequential code that keeps running, so its loop is weakly fair.      *)
(* Configurations: sample_rate > 0, sweep_time > 0, min_freq <= max_freq;  *)
(* a range of a single frequency is taken at most the sample rate (beyond  *)
(* it the phase grows without bound).                                      *)

LoopInit ==
    /\ \E sr \in Rates, t \in Times, lo \in Freqs, hi \in Freqs, k \in Gains :
          /\ lo <= hi
          /\ (lo = hi => lo <= sr)
          /\ gen = start(set_gain(set_time(set_range(new(R(sr)), R(lo), R(hi)), R(t)), k))
    /\ buffer = <<>>
    /\ result = "none"
    /\ op = "start"
    /\ hist = <<>>
    /\ total = 0
    /\ exhausted = FALSE
    /\ sentinels = 0
    /\ cfgState = "fixed"
    /\ AnIdle
    /\ BqIdle
    /\ WavIdle

\* while process(&mut buffer) is not MaxFreqReached: call it again
LoopProcess ==
    /\ result # "MaxFreqReached"
    /\ \E n \in 1..MaxLen :
          LET r == process(gen, FreshBuffer(n))
          IN  /\ gen' = r.gen
              /\ buffer' = r.buffer
              /\ result' = r.result
              /\ exhausted' = (exhausted \/ r.result = "MaxFreqReached")
              /\ sentinels' = sentinels + (IF r.result = "MaxFreqReached" THEN 1 ELSE 0)
    /\ op' = "process"
    /\ UNCHANGED <<hist, total, cfgState>>

LoopNext == LoopProcess /\ UNCHANGED <<anVars, bqVars, wavVars>>

SpecLoop == LoopInit /\ [][LoopNext]_vars /\ WF_vars(LoopNext)

(* C5: a caller that started the generator and calls process with          *)
(* non-empty buffers until it receives MaxFreqReached does receive it.     *)
C5_LoopReceivesSentinel == <>(result = "MaxFreqReached")

---------------------------------------------------------------------------
(* A caller of the two filters: it constructs one filter of each           *)
(* realization and makes the same calls on both, in any order: reset,      *)
(* set_params, set_coefficients, process_sample and process_block.         *)

\* the caller processes at most MaxBqSamples samples
MaxBqSamples == 2
\* the blocks given to process_block have 0..MaxBqBlock samples
MaxBqBlock == 2

\* the samples the caller feeds
BqInputs == {R(-1), R(0), R(1)}

\* the FilterParams values the caller gives to set_params
BqTunings ==
    { Bypass,
      [tag |-> "Lowpass", freq |-> R(1), q |-> R(1)],
      [tag |-> "Highpass1p1z", freq |-> R(1)] }

\* the coefficients the caller gives to set_coefficients
BqCoeffs ==
    { [a0 |-> R(1), a1 |-> R(1), a2 |-> R(-1), b1 |-> R(1), b2 |-> R(1)] }

\* the blocks of len samples
BqBlocks(len) == [1..len -> BqInputs]

BqInit ==
    /\ BqIdle
    /\ GenIdle
    /\ AnIdle
    /\ WavIdle

BqReset ==
    /\ f1' = reset1(f1)
    /\ f2' = reset2(f2)
    /\ bq' = [BqNone EXCEPT !.op = "reset", !.n = bq.n, !.mode = "Bypass",
                            !.retuned = bq.retuned \/ Loaded]

BqSetParams ==
    \E params \in BqTunings :
        /\ f1' = set_params1(f1, params)
        /\ f2' = set_params2(f2, params)
        /\ bq' = [BqNone EXCEPT !.op = "set_params", !.n = bq.n, !.seen = params,
                                !.mode = IF params = Bypass THEN "Bypass" ELSE "other",
                                !.retuned = bq.retuned \/ Loaded]

BqSetCoefficients ==
    \E coeffs \in BqCoeffs :
        /\ f1' = set_coefficients1(f1, coeffs)
        /\ f2' = set_coefficients2(f2, coeffs)
        /\ bq' = [BqNone EXCEPT !.op = "set_coefficients", !.n = bq.n,
                                !.mode = "other",
                                !.retuned = bq.retuned \/ Loaded]

BqProcessSample ==
    \E sample \in BqInputs :
        /\ bq.n < MaxBqSamples
        /\ LET r1 == process_sample1(f1, sample)
               r2 == process_sample2(f2, sample)
           IN  /\ f1' = r1.f
               /\ f2' = r2.f
               /\ bq' = [BqNone EXCEPT !.op = "process_sample", !.n = bq.n + 1,
                                       !.mode = bq.mode, !.retuned = bq.retuned,
                                       !.x = sample,
                                       !.out1 = r1.out, !.out2 = r2.out]

BqProcessBlock ==
    \E len \in 0..MaxBqBlock :
        /\ bq.n + len <= MaxBqSamples
        /\ \E samples \in BqBlocks(len) :
              LET r1 == process_block1(f1, samples, 1)
                  r2 == process_block2(f2, samples, 1)
              IN  /\ f1' = r1.f
                  /\ f2' = r2.f
                  /\ bq' = [BqNone EXCEPT !.op = "process_block", !.n = bq.n + len,
                                          !.mode = bq.mode, !.retuned = bq.retuned,
                                          !.block = samples,
                                          !.block1 = r1.samples,
                                          !.block2 = r2.samples]

BqNext ==
    \/ BqReset /\ UNCHANGED <<genVars, anVars, wavVars>>
    \/ BqSetParams /\ UNCHANGED <<genVars, anVars, wavVars>>
    \/ BqSetCoefficients /\ UNCHANGED <<genVars, anVars, wavVars>>
    \/ BqProcessSample /\ UNCHANGED <<genVars, anVars, wavVars>>
    \/ BqProcessBlock /\ UNCHANGED <<genVars, anVars, wavVars>>

SpecBiquad == BqInit /\ [][BqNext]_vars

---------------------------------------------------------------------------
(* The filters' claims.                                                    *)

(* C12: a filter in Bypass mode (newly constructed, or put into Bypass by  *)
(* set_params(Bypass) or reset() after it processed samples with other     *)
(* coefficients) returns from process_sample exactly the sample it was     *)
(* given, in both realizations; process_block leaves its block as it was.  *)
C12_BypassIsIdentity ==
    bq.mode = "Bypass" =>
        /\ bq.op = "process_sample" => (bq.out1 = bq.x /\ bq.out2 = bq.x)
        /\ bq.op = "process_block" => (bq.block1 = bq.block /\ bq.block2 = bq.block)

(* C13: after reset() the coefficients are those of bypass and every state *)
(* register is zero, in both realizations.                                 *)
C13_ResetClearsState ==
    bq.op = "reset" =>
        /\ f1.coeffs = DefaultCoefficients
        /\ f1.in_states = Zero2
        /\ f1.out_states = Zero2
        /\ f2.coeffs = DefaultCoefficients
        /\ f2.states = Zero2

\* what process_sample called on each sample of xs in order leaves and returns
RECURSIVE SampleBySample1(_, _)
SampleBySample1(f, xs) ==
    IF xs = <<>> THEN [f |-> f, outs |-> <<>>]
    ELSE LET r    == process_sample1(f, Head(xs))
             rest == SampleBySample1(r.f, Tail(xs))
         IN  [f |-> rest.f, outs |-> <<r.out>> \o rest.outs]

RECURSIVE SampleBySample2(_, _)
SampleBySample2(f, xs) ==
    IF xs = <<>> THEN [f |-> f, outs |-> <<>>]
    ELSE LET r    == process_sample2(f, Head(xs))
             rest == SampleBySample2(r.f, Tail(xs))
         IN  [f |-> rest.f, outs |-> <<r.out>> \o rest.outs]

(* C14: set_params, set_coefficients and reset leave the state registers   *)
(* and sample_time of both filters as they were; process_sample and        *)
(* process_block leave coefficients and sample_time as they were;          *)
(* process_sample shifts the sample and its output into the registers of   *)
(* the direct form once; and process_block over n samples leaves the       *)
(* filter and returns the samples as n process_sample calls in order do.   *)
C14_OnlyProcessTouchesState ==
    [][ /\ bq'.op \in {"set_params", "set_coefficients", "reset"} =>
              /\ f1'.in_states = f1.in_states
              /\ f1'.out_states = f1.out_states
              /\ f1'.sample_time = f1.sample_time
              /\ f2'.states = f2.states
              /\ f2'.sample_time = f2.sample_time
        /\ bq'.op \in {"process_sample", "process_block"} =>
              /\ f1'.coeffs = f1.coeffs
              /\ f1'.sample_time = f1.sample_time
              /\ f2'.coeffs = f2.coeffs
              /\ f2'.sample_time = f2.sample_time
        /\ bq'.op = "process_sample" =>
              /\ f1'.in_states = <<bq'.x, f1.in_states[1]>>
              /\ f1'.out_states = <<bq'.out1, f1.out_states[1]>>
        /\ bq'.op = "process_block" =>
              /\ f1' = SampleBySample1(f1, bq'.block).f
              /\ bq'.block1 = SampleBySample1(f1, bq'.block).outs
              /\ f2' = SampleBySample2(f2, bq'.block).f
              /\ bq'.block2 = SampleBySample2(f2, bq'.block).outs
              /\ (bq'.block = <<>> => (f1' = f1 /\ f2' = f2))
      ]_vars

\* the filters were retuned by set_params while their registers held samples
C14_Witness ==
    /\ bq.op = "set_params"
    /\ bq.mode = "other"
    /\ f1.in_states # Zero2
    /\ f1.out_states # Zero2
    /\ f2.states # Zero2

---------------------------------------------------------------------------
(* A caller that compares the two realizations: it constructs one filter   *)
(* of each, gives both the same coefficients (by set_coefficients or by    *)
(* set_params) and feeds both the same periodic signal, one sample after   *)
(* the other.  With feedback coefficients that are not integers the exact  *)
(* values outgrow the number range of the model within a few samples:      *)
(* those filters are run for ShortRun samples, the others for LongRun.     *)

\* the samples of a run with integer feedback coefficients
LongRun == 1000
\* the samples of a run with other feedback coefficients
ShortRun == 5
\* the signal repeats a pattern of 1..MaxPattern samples
MaxPattern == 2

\* coefficients as the record set_coefficients takes
Coeffs(a0, a1, a2, b1, b2) ==
    [a0 |-> R(a0), a1 |-> R(a1), a2 |-> R(a2), b1 |-> R(b1), b2 |-> R(b2)]

(* The coefficients given by set_coefficients: bypass, a filter without    *)
(* feedback, and filters whose poles are on the unit circle at 1, at i and *)
(* -i, at the third roots of unity and twice at 1 (their outputs grow at   *)
(* most with the square of the number of samples).                         *)
PairCoeffs ==
    { Coeffs(1, 0, 0, 0, 0),
      Coeffs(1, 1, 1, 0, 0),
      Coeffs(1, -1, 1, -1, 0),
      Coeffs(1, 1, -1, 0, 1),
      Coeffs(1, 0, 1, 1, 1),
      Coeffs(-1, 1, 1, -2, 1) }

\* the FilterParams values given by set_params
PairTunings ==
    { [tag |-> "Lowpass", freq |-> R(1), q |-> R(1)],
      [tag |-> "Notch", freq |-> R(1), q |-> R(2)],
      [tag |-> "Peak", freq |-> R(1), q |-> R(1), gain |-> R(20)],
      [tag |-> "Allpass", freq |-> R(1), q |-> R(1)],
      [tag |-> "Lowpass1p1z", freq |-> R(1)],
      [tag |-> "HighShelf1st", freq |-> R(1), gain |-> R(-20)] }

\* the patterns of the signal
PairPatterns == UNION { [1..len -> BqInputs] : len \in 1..MaxPattern }

\* the number of samples a filter with coefficients c is run for
RunLength(c) == IF c.b1.d = 1 /\ c.b2.d = 1 THEN LongRun ELSE ShortRun

PairInit ==
    /\ \E pattern \in PairPatterns :
          \/ \E coeffs \in PairCoeffs :
                /\ f1 = set_coefficients1(new1(BqSampleRate), coeffs)
                /\ f2 = set_coefficients2(new2(BqSampleRate), coeffs)
                /\ bq = [BqNone EXCEPT !.op = "set_coefficients", !.mode = "other",
                                       !.pattern = pattern]
          \/ \E params \in PairTunings :
                /\ f1 = set_params1(new1(BqSampleRate), params)
                /\ f2 = set_params2(new2(BqSampleRate), params)
                /\ bq = [BqNone EXCEPT !.op = "set_params", !.mode = "other",
                                       !.seen = params, !.pattern = pattern]
    /\ GenIdle
    /\ AnIdle
    /\ WavIdle

\* the next sample of the signal goes through both filters
PairSample ==
    /\ bq.n < RunLength(f1.coeffs)
    /\ LET sample == bq.pattern[(bq.n % Len(bq.pattern)) + 1]
           r1     == process_sample1(f1, sample)
           r2     == process_sample2(f2, sample)
       IN  /\ f1' = r1.f
           /\ f2' = r2.f
           /\ bq' = [bq EXCEPT !.op = "process_sample", !.n = bq.n + 1,
                               !.x = sample, !.out1 = r1.out, !.out2 = r2.out]

PairNext == PairSample /\ UNCHANGED <<genVars, anVars, wavVars>>

SpecPair == PairInit /\ [][PairNext]_vars

(* C15: two newly constructed filters, one of each realization, given the  *)
(* same coefficients and fed the same signal return the same sample at     *)
(* every index (in exact arithmetic), up to sample 1000.                   *)
C15_RealizationsAgree ==
    bq.op = "process_sample" => (f1.coeffs = f2.coeffs /\ bq.out1 = bq.out2)

\* sample 1000 of a filter with feedback has come out, and it is not zero
C15_Witness ==
    /\ bq.n = LongRun
    /\ f1.coeffs.b1 # R(0)
    /\ f1.coeffs.b2 # R(0)
    /\ bq.out1 # R(0)

---------------------------------------------------------------------------
(* A caller that tunes the filters: it holds ranges for freq, q and gain,  *)
(* makes a FilterParams value, may call clamp on it (any number of times), *)
(* and gives it to set_params of both filters, which takes it by value.    *)
(* Nothing in the code makes the caller call clamp first.                  *)

\* the values of freq (a quarter of the sample rate, plus whole multiples of it)
ClampFreqs == <<R(1), R(5), R(9)>>

\* the values of q
ClampQs == <<R(1), R(2), R(3)>>

\* the values of gain, in dB
ClampGains == <<R(-20), R(0), R(20)>>

\* every FilterParams value over these
AllParams ==
    {Bypass}
    \cup { [tag |-> t, freq |-> ClampFreqs[i], q |-> ClampQs[j]] :
             t \in FreqQTags, i \in 1..3, j \in 1..3 }
    \cup { [tag |-> t, freq |-> ClampFreqs[i], q |-> ClampQs[j], gain |-> ClampGains[k]] :
             t \in FreqQGainTags, i \in 1..3, j \in 1..3, k \in 1..3 }
    \cup { [tag |-> t, freq |-> ClampFreqs[i], gain |-> ClampGains[k]] :
             t \in FreqGainTags, i \in 1..3, k \in 1..3 }
    \cup { [tag |-> t, freq |-> ClampFreqs[i]] : t \in FreqTags, i \in 1..3 }

(* The caller's ranges, lower bound <= upper bound: the three ranges take  *)
(* their bounds at the same positions lo <= hi of the three value lists.   *)
ClampRanges ==
    { << <<ClampFreqs[p[1]], ClampFreqs[p[2]]>>,
         <<ClampQs[p[1]], ClampQs[p[2]]>>,
         <<ClampGains[p[1]], ClampGains[p[2]]>> >> :
        p \in { b \in (1..3) \X (1..3) : b[1] <= b[2] } }

ClampInit ==
    /\ f1 = new1(BqSampleRate)
    /\ f2 = new2(BqSampleRate)
    /\ \E ranges \in ClampRanges : bq = [BqNone EXCEPT !.ranges = ranges]
    /\ GenIdle
    /\ AnIdle
    /\ WavIdle

\* the caller makes a FilterParams value
ClampMake ==
    /\ bq.params = NoParams
    /\ \E params \in AllParams :
          bq' = [bq EXCEPT !.op = "make", !.params = params,
                           !.given = NoParams, !.seen = NoParams]
    /\ UNCHANGED <<f1, f2>>

\* params.clamp(freq_range, q_range, gain_range)
ClampCall ==
    /\ bq.params # NoParams
    /\ bq' = [bq EXCEPT !.op = "clamp", !.given = bq.params,
                        !.params = clamp(bq.params, bq.ranges[1], bq.ranges[2],
                                         bq.ranges[3])]
    /\ UNCHANGED <<f1, f2>>

\* filter.set_params(params), on both filters
ClampSetParams ==
    /\ bq.params # NoParams
    /\ bq.params.tag \in RationalTags
    /\ f1' = set_params1(f1, bq.params)
    /\ f2' = set_params2(f2, bq.params)
    /\ bq' = [bq EXCEPT !.op = "set_params", !.seen = bq.params,
                        !.params = NoParams, !.given = NoParams,
                        !.mode = IF bq.params = Bypass THEN "Bypass" ELSE "other"]

ClampNext ==
    \/ ClampMake /\ UNCHANGED <<genVars, anVars, wavVars>>
    \/ ClampCall /\ UNCHANGED <<genVars, anVars, wavVars>>
    \/ ClampSetParams /\ UNCHANGED <<genVars, anVars, wavVars>>

SpecClamp == ClampInit /\ [][ClampNext]_vars

\* x is inside range = <<min, max>>
InRange(x, range) == RLe(range[1], x) /\ RLe(x, range[2])

\* the range of ranges that belongs to a field of FilterParams
RangeOf(field, ranges) ==
    CASE field = "freq" -> ranges[1]
      [] field = "q"    -> ranges[2]
      [] field = "gain" -> ranges[3]

\* every parameter that params carries is inside its range
Clamped(params, ranges) ==
    \A field \in DOMAIN params \ {"tag"} :
        InRange(params[field], RangeOf(field, ranges))

(* C16: clamp leaves the variant as it is, puts every parameter the        *)
(* variant carries inside its range, leaves a parameter that was inside    *)
(* as it was, is idempotent and leaves Bypass untouched; and set_params    *)
(* only receives parameters that are inside the caller's ranges.           *)
C16_OnlyClampedParamsDerived ==
    /\ bq.op = "clamp" =>
          /\ bq.params.tag = bq.given.tag
          /\ DOMAIN bq.params = DOMAIN bq.given
          /\ Clamped(bq.params, bq.ranges)
          /\ \A field \in DOMAIN bq.given \ {"tag"} :
                InRange(bq.given[field], RangeOf(field, bq.ranges)) =>
                    bq.params[field] = bq.given[field]
          /\ clamp(bq.params, bq.ranges[1], bq.ranges[2], bq.ranges[3]) = bq.params
          /\ (bq.given = Bypass => bq.params = Bypass)
    /\ bq.op = "set_params" => Clamped(bq.seen, bq.ranges)

---------------------------------------------------------------------------
(* wav_writer::write (src/wav_writer.rs), followed from one call of the    *)
(* file system to the next.  The file system decides the outcome of each   *)
(* call: a call may fail.  wav.dir is whether the parent directory of the  *)
(* path exists, wav.written the number of write_sample calls that          *)
(* succeeded, wav.failed whether a call that the file needs has failed.    *)

\* write is given 0..MaxWavSamples samples
MaxWavSamples == 3

\* the channels of the file: each sample is written once per channel
WavChannels == 2

(* The paths given: "" (which has no parent), a file name alone (its       *)
(* parent is the empty path, the current directory) and a file in a        *)
(* directory (which may not exist yet).                                    *)
WavPaths == {"empty", "plain", "nested"}

WavInit ==
    /\ WavIdle
    /\ GenIdle
    /\ AnIdle
    /\ BqIdle

\* write(filename, sample_rate, samples) is called
WavCall ==
    /\ wav.pc \in {"idle", "returned"}
    /\ \E path \in WavPaths, n \in 0..MaxWavSamples, dir \in BOOLEAN :
          /\ (path = "plain" => dir)
          /\ wav' = [pc |-> "parent", path |-> path, dir |-> dir, n |-> n,
                     written |-> 0, failed |-> FALSE, result |-> "none"]

\* let parent = path.parent().unwrap()
WavParent ==
    /\ wav.pc = "parent"
    /\ wav' = [wav EXCEPT !.pc = IF wav.path = "empty" THEN "panicked" ELSE "mkdir"]

\* std::fs::create_dir_all(parent).ok(): its error is dropped
WavMkdir ==
    /\ wav.pc = "mkdir"
    /\ \E ok \in BOOLEAN :
          wav' = [wav EXCEPT !.pc = "create",
                             !.dir = wav.dir \/ ok,
                             !.failed = ~(wav.dir \/ ok)]

\* WavWriter::create(path, spec).unwrap()
WavCreate ==
    /\ wav.pc = "create"
    /\ \E ok \in BOOLEAN :
          wav' = IF wav.dir /\ ok
                 THEN [wav EXCEPT !.pc = "samples"]
                 ELSE [wav EXCEPT !.pc = "panicked", !.failed = TRUE]

\* writer.write_sample(*sample).unwrap(), twice per sample
WavWriteSample ==
    /\ wav.pc = "samples"
    /\ wav.written < WavChannels * wav.n
    /\ \E ok \in BOOLEAN :
          wav' = IF ok
                 THEN [wav EXCEPT !.written = wav.written + 1]
                 ELSE [wav EXCEPT !.pc = "panicked", !.failed = TRUE]

(* Ok(()): the writer is dropped, and whatever dropping it does to         *)
(* complete the file, no outcome of that reaches the value returned.       *)
WavReturn ==
    /\ wav.pc = "samples"
    /\ wav.written = WavChannels * wav.n
    /\ \E ok \in BOOLEAN :
          wav' = [wav EXCEPT !.pc = "returned", !.result = "Ok",
                             !.failed = wav.failed \/ ~ok]

WavNext ==
    \/ WavCall /\ UNCHANGED <<genVars, anVars, bqVars>>
    \/ WavParent /\ UNCHANGED <<genVars, anVars, bqVars>>
    \/ WavMkdir /\ UNCHANGED <<genVars, anVars, bqVars>>
    \/ WavCreate /\ UNCHANGED <<genVars, anVars, bqVars>>
    \/ WavWriteSample /\ UNCHANGED <<genVars, anVars, bqVars>>
    \/ WavReturn /\ UNCHANGED <<genVars, anVars, bqVars>>

SpecWav == WavInit /\ [][WavNext]_vars

(* C17: write does not panic; when a call the file needs has failed (the   *)
(* directory is missing and cannot be created, the file cannot be created, *)
(* a sample cannot be written) write returns Err; and it returns Ok only   *)
(* when every sample was written on every channel.                         *)
C17_WriteReportsFailure ==
    /\ wav.pc # "panicked"
    /\ (wav.pc = "returned" /\ wav.failed) => wav.result = "Err"
    /\ wav.result = "Ok" => wav.written = WavChannels * wav.n

---------------------------------------------------------------------------
(* A caller that sweeps ranges reaching beyond the sample rate: it         *)
(* constructs the generator, sets a range, and calls start() and process() *)
(* in any order (sweep in src/bode.rs does so whenever the analyzer's      *)
(* sample rate is below 20 kHz).                                           *)

\* the frequencies of these ranges are 0..MaxHighFreq
MaxHighFreq == 3

PhaseInit ==
    /\ \E sr \in Rates, lo \in 0..MaxHighFreq, hi \in 0..MaxHighFreq :
          gen = set_range(new(R(sr)), R(lo), R(hi))
    /\ buffer = <<>>
    /\ result = "none"
    /\ op = "set_range"
    /\ hist = <<>>
    /\ total = 0
    /\ exhausted = FALSE
    /\ sentinels = 0
    /\ cfgState = "prestart"
    /\ AnIdle
    /\ BqIdle
    /\ WavIdle

PhaseNext ==
    \/ Start /\ UNCHANGED <<anVars, bqVars, wavVars>>
    \/ Process /\ UNCHANGED <<anVars, bqVars, wavVars>>

SpecPhase == PhaseInit /\ [][PhaseNext]_vars

(* C19: the phase is in [0, TAU] in every state, for every sample rate and *)
(* range, also when the frequencies of the range exceed the sample rate.   *)
C19_PhaseWrapped ==
    /\ RLe(R(0), gen.phase)
    /\ RLe(gen.phase, R(1))

---------------------------------------------------------------------------
(* A caller that retunes the two filters while it feeds them: it           *)
(* constructs one filter of each realization and makes the same calls on   *)
(* both, set_params, set_coefficients, process_sample and process_block in *)
(* any order, and never reset.                                             *)

RetuneNext ==
    \/ BqSetParams /\ UNCHANGED <<genVars, anVars, wavVars>>
    \/ BqSetCoefficients /\ UNCHANGED <<genVars, anVars, wavVars>>
    \/ BqProcessSample /\ UNCHANGED <<genVars, anVars, wavVars>>
    \/ BqProcessBlock /\ UNCHANGED <<genVars, anVars, wavVars>>

SpecRetune == BqInit /\ [][RetuneNext]_vars

(* C21: two filters, one of each realization, that start with zero         *)
(* registers and get the same samples and the same coefficient changes at  *)
(* the same positions return the same samples, whether or not coefficients *)
(* were changed in the middle of the signal.                               *)
C21_AgreeAcrossRetuning ==
    /\ bq.op = "process_sample" => bq.out1 = bq.out2
    /\ bq.op = "process_block" => bq.block1 = bq.block2

(* C21 as amended: the two filters return the same samples as long as      *)
(* every coefficient change so far was made while all state registers of   *)
(* both filters were zero (before the first sample, or after silence).     *)
C21_AgreeUntilRetunedLoaded ==
    ~bq.retuned =>
        /\ f1.coeffs = f2.coeffs
        /\ bq.op = "process_sample" => bq.out1 = bq.out2
        /\ bq.op = "process_block" => bq.block1 = bq.block2

(* coefficients with feedback were set while all registers were zero, and  *)
(* the last sample has come out of registers that hold earlier samples     *)
C21_Witness ==
    /\ bq.op = "process_sample"
    /\ ~bq.retuned
    /\ bq.n = MaxBqSamples
    /\ f1.coeffs.b2 # R(0)
    /\ f1.out_states[2] # R(0)
    /\ bq.out1 # R(0)

====
